---- MODULE Spec2Model ----
(***************************************************************************)
(* Model of the daily-message backend (src/server.js): an in-memory queue  *)
(* of messages mirrored to disk, a config record, one node-cron job that   *)
(* fires sendDailyMessage, and the HTTP handlers that mutate them.  Every  *)
(* handler is split at its await points: the code between two awaits runs  *)
(* atomically on the event loop, so each such piece is one action.         *)
(***************************************************************************)
EXTENDS Integers, Sequences, FiniteSets, TLC

\* ---------------------------------------------------------------- bounds
MaxClock == 2      \* Date.now() takes the values 1..MaxClock
MaxMsgs  == 2      \* messages ever posted
MaxRuns  == 2      \* sendDailyMessage invocations ever started
MaxJobs  == 2      \* cron jobs ever created (the startup job included)
MaxOps   == 1      \* HTTP mutations awaiting their file write at one time

\* ------------------------------------------------------- strings as chars
Digits == <<"0", "1", "2", "3", "4", "5", "6", "7", "8", "9">>

IsDigit(c) == \E i \in 1..10 : Digits[i] = c

DigitVal(c) == (CHOOSE i \in 1..10 : Digits[i] = c) - 1

\* String.prototype.split(':') : the pieces between the separators
RECURSIVE SplitFrom(_, _, _)
SplitFrom(s, i, cur) ==
  IF i > Len(s) THEN <<cur>>
  ELSE IF s[i] = ":" THEN <<cur>> \o SplitFrom(s, i + 1, <<>>)
  ELSE SplitFrom(s, i + 1, Append(cur, s[i]))

Split(s) == SplitFrom(s, 1, <<>>)

\* what a template literal prints for a missing array element
Undefined == <<"u", "n", "d", "e", "f", "i", "n", "e", "d">>

\* const [hours, minutes] = config.sendTime.split(':');
\* const cronTime = `${minutes} ${hours} * * *`;
CronTime(sendTime) ==
  LET parts == Split(sendTime)
  IN  [minute |-> IF Len(parts) >= 2 THEN parts[2] ELSE Undefined,
       hour   |-> parts[1]]

RECURSIVE ToNum(_)
ToNum(s) == IF s = <<>> THEN 0
            ELSE 10 * ToNum(SubSeq(s, 1, Len(s) - 1)) + DigitVal(s[Len(s)])

IsNumeric(s) == Len(s) > 0 /\ \A i \in 1..Len(s) : IsDigit(s[i])

\* node-cron rejects a pattern whose minute is not 0-59 or hour not 0-23
ValidCron(ct) ==
  /\ IsNumeric(ct.minute) /\ ToNum(ct.minute) <= 59
  /\ IsNumeric(ct.hour) /\ ToNum(ct.hour) <= 23

\* ------------------------------------------------------------ the inputs
T1200 == <<"1", "2", ":", "0", "0">>
T0930 == <<"0", "9", ":", "3", "0">>
T2599 == <<"2", "5", ":", "9", "9">>
Phone == <<"+", "1", "5", "5", "5", "1", "2", "3", "4", "5", "6", "7">>

\* request bodies of POST /api/config; <<>> and "" stand for a missing field
Bodies ==
  {[phoneNumber |-> Phone, sendTime |-> T0930, carrier |-> "tmobile"],
   [phoneNumber |-> <<>>,  sendTime |-> <<>>,  carrier |-> ""],
   [phoneNumber |-> Phone, sendTime |-> T2599, carrier |-> ""]}
BodyTexts == {"Hello"}

\* ------------------------------------------------------- address resolver
CARRIER_DOMAINS ==
  [c \in {"att", "verizon", "tmobile", "sprint", "uscellular", "boost",
          "cricket", "metropcs"} |->
     CASE c = "att"        -> "txt.att.net"
       [] c = "verizon"    -> "vtext.com"
       [] c = "tmobile"    -> "tmomail.net"
       [] c = "sprint"     -> "messaging.sprintpcs.com"
       [] c = "uscellular" -> "email.uscc.net"
       [] c = "boost"      -> "sms.myboostmobile.com"
       [] c = "cricket"    -> "sms.cricketwireless.net"
       [] c = "metropcs"   -> "mymetropcs.com"]

\* replace(/\D/g, '')
RECURSIVE StripNonDigits(_)
StripNonDigits(s) ==
  IF s = <<>> THEN <<>>
  ELSE IF IsDigit(Head(s)) THEN <<Head(s)>> \o StripNonDigits(Tail(s))
  ELSE StripNonDigits(Tail(s))

\* replace(/^1/, '')
StripLeadingOne(s) == IF s # <<>> /\ Head(s) = "1" THEN Tail(s) ELSE s

\* CARRIER_DOMAINS is an object literal: a key it does not own is looked up
\* on Object.prototype, whose members are truthy and so are not replaced
\* by the default; these are three of them, as a template literal prints
\* them
PrototypeMembers ==
  [k \in {"constructor", "toString", "__proto__"} |->
     CASE k = "constructor" -> "function Object() { [native code] }"
       [] k = "toString"    -> "function toString() { [native code] }"
       [] k = "__proto__"   -> "[object Object]"]

\* CARRIER_DOMAINS[carrier] || CARRIER_DOMAINS.att
DomainOf(carrier) ==
  IF carrier \in DOMAIN CARRIER_DOMAINS THEN CARRIER_DOMAINS[carrier]
  ELSE IF carrier \in DOMAIN PrototypeMembers THEN PrototypeMembers[carrier]
  ELSE CARRIER_DOMAINS["att"]

\* the leading 1 kept
phoneToSmsEmailKeepOne(phoneNumber, carrier) ==
  StripNonDigits(phoneNumber) \o <<"@", DomainOf(carrier)>>

phoneToSmsEmail(phoneNumber, carrier) ==
  LET cleanNumber == StripLeadingOne(StripNonDigits(phoneNumber))
      domain == DomainOf(carrier)
  IN  cleanNumber \o <<"@", domain>>

\* ------------------------------------------------------------- the state
VARIABLES
  now,             \* Date.now()
  transporter,     \* TRUE iff EMAIL_USER and EMAIL_PASS were set
  messages,        \* the in-memory array
  config,          \* the in-memory config object
  created,         \* message objects allocated so far (object identity)
  diskMessages,    \* content of messages.json
  diskConfig,      \* content of config.json
  ops,             \* HTTP mutations suspended at `await save...()`
  runs,            \* every sendDailyMessage invocation, in start order
  jobs,            \* every cron job created, in creation order
  currentCronJob,  \* index in jobs, 0 for null
  lastResp         \* the last answer of a config or messages route

vars == <<now, transporter, messages, config, created, diskMessages,
          diskConfig, ops, runs, jobs, currentCronJob, lastResp>>

NoTime == 0        \* an absent sentAt
NoMsg  == 0        \* no message selected

\* res.json(...) / res.status(500).json(...) of a route
Response(route, status) ==
  [route |-> route, status |-> status, success |-> status = 200]

NoResponse == [route |-> "none", status |-> 0, success |-> FALSE]

DefaultConfig == [phoneNumber |-> <<>>, sendTime |-> T1200, carrier |-> "att"]

\* ------------------------------------------------------------- scheduler
\* setupSchedule() without the stop of the previous job
SetupScheduleNoStop(js, cur, cfg) ==
  LET cronTime == CronTime(cfg.sendTime)
  IN  IF ValidCron(cronTime)
      THEN [jobs |-> Append(js, [cron |-> cronTime, running |-> TRUE]),
            currentCronJob |-> Len(js) + 1,
            threw |-> FALSE]
      ELSE [jobs |-> js, currentCronJob |-> cur, threw |-> TRUE]

\* setupSchedule(): stop the current job, then schedule a new one; the
\* schedule call throws on an invalid pattern, after the stop
SetupSchedule(js, cur, cfg) ==
  LET stopped  == IF cur # 0 THEN [js EXCEPT ![cur].running = FALSE] ELSE js
      cronTime == CronTime(cfg.sendTime)
  IN  IF ValidCron(cronTime)
      THEN [jobs |-> Append(stopped, [cron |-> cronTime, running |-> TRUE]),
            currentCronJob |-> Len(stopped) + 1,
            threw |-> FALSE]
      ELSE [jobs |-> stopped, currentCronJob |-> cur, threw |-> TRUE]

Init ==
  /\ now = 1
  /\ transporter \in BOOLEAN
  /\ messages = <<>>
  /\ config = DefaultConfig
  /\ created = 0
  /\ diskMessages = <<>>
  /\ diskConfig = DefaultConfig
  /\ ops = <<>>
  /\ runs = <<>>
  /\ jobs = SetupSchedule(<<>>, 0, DefaultConfig).jobs
  /\ currentCronJob = SetupSchedule(<<>>, 0, DefaultConfig).currentCronJob
  /\ lastResp = NoResponse

Tick ==
  /\ now < MaxClock
  /\ now' = now + 1
  /\ UNCHANGED <<transporter, messages, config, created, diskMessages,
                 diskConfig, ops, runs, jobs, currentCronJob, lastResp>>

\* ------------------------------------------------------------ HTTP routes
RemoveAt(s, i) == SubSeq(s, 1, i - 1) \o SubSeq(s, i + 1, Len(s))

PendingOfKind(k) == Cardinality({i \in 1..Len(ops) : ops[i].kind = k})

\* POST /api/config up to `await saveConfig()`: the config object is
\* replaced and its JSON handed to writeFile
NewConfig(body) ==
  [phoneNumber |-> body.phoneNumber,
   sendTime    |-> IF body.sendTime = <<>> THEN T1200 ELSE body.sendTime,
   carrier     |-> IF body.carrier = "" THEN "att" ELSE body.carrier]

ConfigPost(body) ==
  /\ Len(ops) < MaxOps
  /\ Len(jobs) + PendingOfKind("config") < MaxJobs
  /\ config' = NewConfig(body)
  /\ ops' = Append(ops, [kind |-> "config", snap |-> config'])
  /\ UNCHANGED <<now, transporter, messages, created, diskMessages,
                 diskConfig, runs, jobs, currentCronJob, lastResp>>

\* POST /api/config after the await: the write has ended (an error is
\* swallowed by saveConfig), setupSchedule() runs on the config object of
\* that moment, and a throw becomes the 500 response
ConfigSaved(i, writeOk) ==
  /\ i \in 1..Len(ops)
  /\ ops[i].kind = "config"
  /\ diskConfig' = IF writeOk THEN ops[i].snap ELSE diskConfig
  /\ LET s == SetupSchedule(jobs, currentCronJob, config)
     IN  /\ jobs' = s.jobs
         /\ currentCronJob' = s.currentCronJob
         /\ lastResp' = Response("config", IF s.threw THEN 500 ELSE 200)
  /\ ops' = RemoveAt(ops, i)
  /\ UNCHANGED <<now, transporter, messages, config, created, diskMessages,
                 runs>>

\* POST /api/messages up to `await saveMessages()`
NewMessage(text) ==
  [oid |-> created + 1, id |-> now, text |-> text, sent |-> FALSE,
   createdAt |-> now, sentAt |-> NoTime]

\* the new message put at the head of the array instead of its end
MessagePostUnshift(text) ==
  /\ Len(ops) < MaxOps
  /\ created < MaxMsgs
  /\ created' = created + 1
  /\ messages' = <<NewMessage(text)>> \o messages
  /\ ops' = Append(ops, [kind |-> "add", snap |-> messages'])
  /\ UNCHANGED <<now, transporter, config, diskMessages, diskConfig, runs,
                 jobs, currentCronJob, lastResp>>

MessagePost(text) ==
  /\ Len(ops) < MaxOps
  /\ created < MaxMsgs
  /\ created' = created + 1
  /\ messages' = Append(messages, NewMessage(text))
  /\ ops' = Append(ops, [kind |-> "add", snap |-> messages'])
  /\ UNCHANGED <<now, transporter, config, diskMessages, diskConfig, runs,
                 jobs, currentCronJob, lastResp>>

\* DELETE /api/messages/:id up to `await saveMessages()`
\* whether the request names a message of the queue: the route does not
\* compute it, the suspended request carries it here for the claims
Existed(msgs, id) == \E i \in 1..Len(msgs) : msgs[i].id = id

WithoutId(msgs, id) == SelectSeq(msgs, LAMBDA m : m.id # id)

MessageDelete(id) ==
  /\ Len(ops) < MaxOps
  /\ messages' = WithoutId(messages, id)
  /\ ops' = Append(ops, [kind |-> "delete", snap |-> messages',
                          existed |-> Existed(messages, id)])
  /\ UNCHANGED <<now, transporter, config, created, diskMessages, diskConfig,
                 runs, jobs, currentCronJob, lastResp>>

\* the rest of either message route: the write has ended (an error is
\* swallowed by saveMessages) and the route answers success
MessagesSaved(i, writeOk) ==
  /\ i \in 1..Len(ops)
  /\ ops[i].kind \in {"add", "delete"}
  /\ diskMessages' = IF writeOk THEN ops[i].snap ELSE diskMessages
  /\ lastResp' = Response(ops[i].kind, 200)
  /\ ops' = RemoveAt(ops, i)
  /\ UNCHANGED <<now, transporter, messages, config, created, diskConfig,
                 runs, jobs, currentCronJob>>

\* ------------------------------------------------------------ dispatcher
Unsent(msgs) == SelectSeq(msgs, LAMBDA m : ~m.sent)

NoMessagesQueued == [success |-> FALSE, message |-> "No messages queued"]
EmailNotConfigured == [success |-> FALSE, message |-> "Email not configured"]
NoPhoneNumber == [success |-> FALSE, message |-> "No phone number configured"]
MessageSent == [success |-> TRUE, message |-> "Message sent!"]
SendError == [success |-> FALSE, message |-> "error.message"]
Pending == [success |-> FALSE, message |-> ""]

EarlyReturn(result) ==
  [state |-> "done", result |-> result, oid |-> NoMsg, id |-> 0, to |-> <<>>,
   text |-> ""]

Selected(m, cfg) ==
  [state |-> "sending", result |-> Pending, oid |-> m.oid, id |-> m.id,
   to |-> phoneToSmsEmail(cfg.phoneNumber, cfg.carrier), text |-> m.text]

\* the transporter tested before the queue
DispatchBackendFirst(msgs, tr, cfg) ==
  LET unsentMessages == Unsent(msgs)
  IN  IF ~tr THEN EarlyReturn(EmailNotConfigured)
      ELSE IF Len(unsentMessages) = 0 THEN EarlyReturn(NoMessagesQueued)
      ELSE IF cfg.phoneNumber = <<>> THEN EarlyReturn(NoPhoneNumber)
      ELSE Selected(unsentMessages[1], cfg)

\* the phone number not tested
DispatchNoPhoneCheck(msgs, tr, cfg) ==
  LET unsentMessages == Unsent(msgs)
  IN  IF Len(unsentMessages) = 0 THEN EarlyReturn(NoMessagesQueued)
      ELSE IF ~tr THEN EarlyReturn(EmailNotConfigured)
      ELSE Selected(unsentMessages[1], cfg)

\* the last unsent message selected instead of the first
DispatchNewestFirst(msgs, tr, cfg) ==
  LET unsentMessages == Unsent(msgs)
  IN  IF Len(unsentMessages) = 0 THEN EarlyReturn(NoMessagesQueued)
      ELSE IF ~tr THEN EarlyReturn(EmailNotConfigured)
      ELSE IF cfg.phoneNumber = <<>> THEN EarlyReturn(NoPhoneNumber)
      ELSE Selected(unsentMessages[Len(unsentMessages)], cfg)

\* sendDailyMessage() from its entry to `await transporter.sendMail(...)`:
\* either an early return, or the first unsent message is selected and
\* the mail handed to the transporter
Dispatch(msgs, tr, cfg) ==
  LET unsentMessages == Unsent(msgs)
  IN  IF Len(unsentMessages) = 0 THEN EarlyReturn(NoMessagesQueued)
      ELSE IF ~tr THEN EarlyReturn(EmailNotConfigured)
      ELSE IF cfg.phoneNumber = <<>> THEN EarlyReturn(NoPhoneNumber)
      ELSE Selected(unsentMessages[1], cfg)

\* one invocation of sendDailyMessage(), by the cron callback or the route
sendDailyMessage ==
  /\ Len(runs) < MaxRuns
  /\ LET d == Dispatch(messages, transporter, config)
     IN  runs' = Append(runs,
                   [state |-> d.state,
                    result |-> d.result, oid |-> d.oid, id |-> d.id,
                    to |-> d.to, text |-> d.text, marked |-> 0,
                    snap |-> <<>>])
  /\ UNCHANGED <<now, transporter, messages, config, created, diskMessages,
                 diskConfig, ops, jobs, currentCronJob, lastResp>>

\* the callback of a cron job that has not been stopped
TimerFire(j) ==
  /\ j \in 1..Len(jobs)
  /\ jobs[j].running
  /\ sendDailyMessage

\* POST /api/send-now
SendNow == sendDailyMessage

\* every unsent message marked, not only the selected one
MarkSentAll(msgs, oid, when) ==
  [i \in 1..Len(msgs) |->
     IF msgs[i].oid = oid \/ ~msgs[i].sent
     THEN [msgs[i] EXCEPT !.sent = TRUE, !.sentAt = when]
     ELSE msgs[i]]

\* the flag set without the timestamp
MarkSentNoStamp(msgs, oid, when) ==
  [i \in 1..Len(msgs) |->
     IF msgs[i].oid = oid THEN [msgs[i] EXCEPT !.sent = TRUE] ELSE msgs[i]]

\* the mark written to a copy of the selected object: the array keeps the
\* message unsent
MarkSentDetached(msgs, oid, when) ==
  [i \in 1..Len(msgs) |-> msgs[i]]

\* messageToSend.sent = true; messageToSend.sentAt = new Date()...: the
\* selected object is written, whether or not the array still holds it
MarkSent(msgs, oid, when) ==
  [i \in 1..Len(msgs) |->
     IF msgs[i].oid = oid
     THEN [msgs[i] EXCEPT !.sent = TRUE, !.sentAt = when]
     ELSE msgs[i]]

Flipped(old, new) ==
  Cardinality({i \in 1..Len(old) : ~old[i].sent /\ new[i].sent})

\* the selected object pushed back when the array no longer holds it
SendOkReinsert(r) ==
  /\ r \in 1..Len(runs)
  /\ runs[r].state = "sending"
  /\ messages' =
       IF \E i \in 1..Len(messages) : messages[i].oid = runs[r].oid
       THEN MarkSent(messages, runs[r].oid, now)
       ELSE Append(messages,
                   [oid |-> runs[r].oid, id |-> runs[r].id,
                    text |-> runs[r].text, sent |-> TRUE,
                    createdAt |-> runs[r].id, sentAt |-> now])
  /\ runs' = [runs EXCEPT ![r].state = "saving",
                          ![r].marked = 0,
                          ![r].snap = messages']
  /\ UNCHANGED <<now, transporter, config, created, diskMessages, diskConfig,
                 ops, jobs, currentCronJob, lastResp>>

\* sendMail resolved: mark as sent, hand the JSON of the array to writeFile
SendOk(r) ==
  /\ r \in 1..Len(runs)
  /\ runs[r].state = "sending"
  /\ messages' = MarkSent(messages, runs[r].oid, now)
  /\ runs' = [runs EXCEPT ![r].state = "saving",
                          ![r].marked = Flipped(messages, messages'),
                          ![r].snap = messages']
  /\ UNCHANGED <<now, transporter, config, created, diskMessages, diskConfig,
                 ops, jobs, currentCronJob, lastResp>>

\* sendMail rejected: the catch block returns the error
SendFail(r) ==
  /\ r \in 1..Len(runs)
  /\ runs[r].state = "sending"
  /\ runs' = [runs EXCEPT ![r].state = "done", ![r].result = SendError]
  /\ UNCHANGED <<now, transporter, messages, config, created, diskMessages,
                 diskConfig, ops, jobs, currentCronJob, lastResp>>

\* the write of the marked array has ended; the run returns success
RunSaved(r, writeOk) ==
  /\ r \in 1..Len(runs)
  /\ runs[r].state = "saving"
  /\ diskMessages' = IF writeOk THEN runs[r].snap ELSE diskMessages
  /\ runs' = [runs EXCEPT ![r].state = "done", ![r].result = MessageSent,
                          ![r].snap = <<>>]
  /\ UNCHANGED <<now, transporter, messages, config, created, diskConfig,
                 ops, jobs, currentCronJob, lastResp>>

Next ==
  \/ Tick
  \/ \E body \in Bodies : ConfigPost(body)
  \/ \E i \in 1..MaxOps, ok \in BOOLEAN : ConfigSaved(i, ok)
  \/ \E text \in BodyTexts : MessagePost(text)
  \/ \E id \in 1..MaxClock : MessageDelete(id)
  \/ \E i \in 1..MaxOps, ok \in BOOLEAN : MessagesSaved(i, ok)
  \/ \E j \in 1..MaxJobs : TimerFire(j)
  \/ SendNow
  \/ \E r \in 1..MaxRuns : SendOk(r)
  \/ \E r \in 1..MaxRuns : SendFail(r)
  \/ \E r \in 1..MaxRuns, ok \in BOOLEAN : RunSaved(r, ok)

Spec == Init /\ [][Next]_vars

\* the server with a data directory that is always writable: every
\* fs.writeFile resolves, in whatever order the pending writes end
NextWritesOk ==
  \/ Tick
  \/ \E body \in Bodies : ConfigPost(body)
  \/ \E i \in 1..MaxOps : ConfigSaved(i, TRUE)
  \/ \E text \in BodyTexts : MessagePost(text)
  \/ \E id \in 1..MaxClock : MessageDelete(id)
  \/ \E i \in 1..MaxOps : MessagesSaved(i, TRUE)
  \/ \E j \in 1..MaxJobs : TimerFire(j)
  \/ SendNow
  \/ \E r \in 1..MaxRuns : SendOk(r)
  \/ \E r \in 1..MaxRuns : SendFail(r)
  \/ \E r \in 1..MaxRuns : RunSaved(r, TRUE)

SpecWritesOk == Init /\ [][NextWritesOk]_vars

\* the message routes alone, with every text a request can carry: "" stands
\* for an empty or missing text
AnyTexts == BodyTexts \cup {""}

NextQueue ==
  \/ Tick
  \/ \E text \in AnyTexts : MessagePost(text)
  \/ \E id \in 1..MaxClock : MessageDelete(id)
  \/ \E i \in 1..MaxOps, ok \in BOOLEAN : MessagesSaved(i, ok)

SpecQueue == Init /\ [][NextQueue]_vars

\* the address resolver alone: one queued message, a transporter, and the
\* config drawn from these phone numbers and carrier tags; every
\* invocation resolves the address of the config
ResolverPhones ==
  {Phone, <<"1">>, <<"1", "1", "5">>, <<"5", "5", "1">>,
   <<"(", "1", ")", " ", "5", "-", "5">>}

ResolverCarriers == {"att", "tmobile", "verizon", "nocarrier", "constructor"}

InitResolver ==
  /\ now = 1
  /\ transporter = TRUE
  /\ messages = <<[oid |-> 1, id |-> 1, text |-> "Hello", sent |-> FALSE,
                   createdAt |-> 1, sentAt |-> NoTime]>>
  /\ config \in [phoneNumber : ResolverPhones, sendTime : {T1200},
                 carrier : ResolverCarriers]
  /\ created = 1
  /\ diskMessages = messages
  /\ diskConfig = config
  /\ ops = <<>>
  /\ runs = <<>>
  /\ jobs = SetupSchedule(<<>>, 0, config).jobs
  /\ currentCronJob = SetupSchedule(<<>>, 0, config).currentCronJob
  /\ lastResp = NoResponse

NextResolver ==
  \/ SendNow
  \/ \E r \in 1..MaxRuns : SendFail(r)

SpecResolver == InitResolver /\ [][NextResolver]_vars

\* ------------------------------------------------------- recurring timer
\* The server started with EMAIL_USER/EMAIL_PASS set and a config file that
\* holds a phone number: the cron job of setupSchedule() fires day after
\* day, a pending sendMail or writeFile settles, and an invocation that has
\* returned is gone.
ConfiguredConfig ==
  [phoneNumber |-> Phone, sendTime |-> T0930, carrier |-> "tmobile"]

InitLive ==
  /\ now = 1
  /\ transporter = TRUE
  /\ messages = <<>>
  /\ config = ConfiguredConfig
  /\ created = 0
  /\ diskMessages = <<>>
  /\ diskConfig = ConfiguredConfig
  /\ ops = <<>>
  /\ runs = <<>>
  /\ jobs = SetupSchedule(<<>>, 0, ConfiguredConfig).jobs
  /\ currentCronJob = SetupSchedule(<<>>, 0, ConfiguredConfig).currentCronJob
  /\ lastResp = NoResponse

\* sendDailyMessage() has returned: nothing of the invocation remains
Return(r) ==
  /\ r \in 1..Len(runs)
  /\ runs[r].state = "done"
  /\ runs' = RemoveAt(runs, r)
  /\ UNCHANGED <<now, transporter, messages, config, created, diskMessages,
                 diskConfig, ops, jobs, currentCronJob, lastResp>>

NextLive ==
  \/ Tick
  \/ \E text \in BodyTexts : MessagePost(text)
  \/ \E id \in 1..MaxClock : MessageDelete(id)
  \/ \E i \in 1..MaxOps, ok \in BOOLEAN : MessagesSaved(i, ok)
  \/ \E j \in 1..MaxJobs : TimerFire(j)
  \/ \E r \in 1..MaxRuns : SendOk(r)
  \/ \E r \in 1..MaxRuns : SendFail(r)
  \/ \E r \in 1..MaxRuns, ok \in BOOLEAN : RunSaved(r, ok)
  \/ \E r \in 1..MaxRuns : Return(r)

\* the timer keeps firing; of the sends that are attempted again and again
\* one succeeds; a pending write ends; a finished invocation returns
FairnessLive ==
  /\ WF_vars(\E j \in 1..MaxJobs : TimerFire(j))
  /\ SF_vars(\E r \in 1..MaxRuns : SendOk(r))
  /\ WF_vars(\E r \in 1..MaxRuns, ok \in BOOLEAN : RunSaved(r, ok))
  /\ WF_vars(\E r \in 1..MaxRuns : Return(r))

SpecLive == InitLive /\ [][NextLive]_vars /\ FairnessLive

\* ------------------------------------------------- backend-server.js
\* The Twilio variant of the server: no files, no checks before the send,
\* setupSchedule() called once at startup, and routes that answer success
\* whatever happened.
BackendDefaultConfig == [phoneNumber |-> <<>>, sendTime |-> T1200]

BackendBodies ==
  {[phoneNumber |-> Phone, sendTime |-> T0930],
   [phoneNumber |-> <<>>, sendTime |-> T1200]}

\* setupSchedule(): schedules a job and keeps no reference to it
BackendSetupSchedule(js, cfg) ==
  Append(js, [cron |-> CronTime(cfg.sendTime), running |-> TRUE])

BackendInit ==
  /\ now = 1
  /\ transporter = TRUE
  /\ messages = <<>>
  /\ config = BackendDefaultConfig
  /\ created = 0
  /\ diskMessages = <<>>
  /\ diskConfig = BackendDefaultConfig
  /\ ops = <<>>
  /\ runs = <<>>
  /\ jobs = BackendSetupSchedule(<<>>, BackendDefaultConfig)
  /\ currentCronJob = 0
  /\ lastResp = NoResponse

\* POST /api/config: config = req.body, and nothing else
BackendConfigPost(body) ==
  /\ config' = body
  /\ lastResp' = Response("config", 200)
  /\ UNCHANGED <<now, transporter, messages, created, diskMessages,
                 diskConfig, ops, runs, jobs, currentCronJob>>

BackendMessagePost(text) ==
  /\ created < MaxMsgs
  /\ created' = created + 1
  /\ messages' = Append(messages, NewMessage(text))
  /\ lastResp' = Response("add", 200)
  /\ UNCHANGED <<now, transporter, config, diskMessages, diskConfig, ops,
                 runs, jobs, currentCronJob>>

BackendMessageDelete(id) ==
  /\ messages' = WithoutId(messages, id)
  /\ lastResp' = Response("delete", 200)
  /\ UNCHANGED <<now, transporter, config, created, diskMessages, diskConfig,
                 ops, runs, jobs, currentCronJob>>

\* what the caller of an invocation gets when it ends: the send-now route
\* answers 'Message sent!' after any invocation, the cron callback nothing
BackendAnswer(trigger) == IF trigger = "manual" THEN MessageSent ELSE Pending

\* sendDailyMessage() up to `await client.messages.create(...)`
BackendDispatch(msgs, cfg, trigger) ==
  LET unsentMessages == Unsent(msgs)
  IN  IF Len(unsentMessages) = 0
      THEN [state |-> "done", result |-> BackendAnswer(trigger),
            oid |-> NoMsg, id |-> 0, to |-> <<>>, text |-> ""]
      ELSE [state |-> "sending", result |-> Pending,
            oid |-> unsentMessages[1].oid, id |-> unsentMessages[1].id,
            to |-> cfg.phoneNumber, text |-> unsentMessages[1].text]

BackendSendDailyMessage(trigger) ==
  /\ Len(runs) < MaxRuns
  /\ LET d == BackendDispatch(messages, config, trigger)
     IN  runs' = Append(runs,
                   [state |-> d.state, result |-> d.result, oid |-> d.oid,
                    id |-> d.id, to |-> d.to, text |-> d.text, marked |-> 0,
                    snap |-> <<>>, trigger |-> trigger])
  /\ UNCHANGED <<now, transporter, messages, config, created, diskMessages,
                 diskConfig, ops, jobs, currentCronJob, lastResp>>

BackendTimerFire(j) ==
  /\ j \in 1..Len(jobs)
  /\ jobs[j].running
  /\ BackendSendDailyMessage("timer")

BackendSendNow == BackendSendDailyMessage("manual")

\* the Twilio call resolved: mark as sent
BackendSendOk(r) ==
  /\ r \in 1..Len(runs)
  /\ runs[r].state = "sending"
  /\ messages' = MarkSent(messages, runs[r].oid, now)
  /\ runs' = [runs EXCEPT ![r].state = "done",
                          ![r].marked = Flipped(messages, messages'),
                          ![r].result = BackendAnswer(runs[r].trigger)]
  /\ UNCHANGED <<now, transporter, config, created, diskMessages, diskConfig,
                 ops, jobs, currentCronJob, lastResp>>

\* the Twilio call rejected: the catch block logs and the function returns
BackendSendFail(r) ==
  /\ r \in 1..Len(runs)
  /\ runs[r].state = "sending"
  /\ runs' = [runs EXCEPT ![r].state = "done",
                          ![r].result = BackendAnswer(runs[r].trigger)]
  /\ UNCHANGED <<now, transporter, messages, config, created, diskMessages,
                 diskConfig, ops, jobs, currentCronJob, lastResp>>

BackendNext ==
  \/ Tick
  \/ \E body \in BackendBodies : BackendConfigPost(body)
  \/ \E text \in BodyTexts : BackendMessagePost(text)
  \/ \E id \in 1..MaxClock : BackendMessageDelete(id)
  \/ \E j \in 1..MaxJobs : BackendTimerFire(j)
  \/ BackendSendNow
  \/ \E r \in 1..MaxRuns : BackendSendOk(r)
  \/ \E r \in 1..MaxRuns : BackendSendFail(r)

SpecBackend == BackendInit /\ [][BackendNext]_vars

\* ---------------------------------------------------------------- claims
RunIds == 1..Len(runs)

JobIds == 1..Len(jobs)

MsgIds == 1..Len(messages)

Holds(oid) == \E i \in MsgIds : messages[i].oid = oid

Started == Len(runs') = Len(runs) + 1

\* C1: two overlapping invocations on one queued message never both call
\* the backend for that message and never both return 'Message sent!'
C1_OneSentPerMessage ==
  \A r1, r2 \in RunIds :
    (r1 # r2 /\ runs[r1].oid # NoMsg /\ runs[r1].oid = runs[r2].oid) =>
      /\ ~(runs[r1].state = "sending" /\ runs[r2].state = "sending")
      /\ ~(runs[r1].result = MessageSent /\ runs[r2].result = MessageSent)

\* C2: at most one invocation is between selecting its message and
\* marking it sent
C2_SingleFlight ==
  Cardinality({r \in RunIds : runs[r].state = "sending"}) <= 1

\* C3: at most one cron job is running, it is the current one, and once no
\* config update is in progress it is set for config.sendTime (and exists
\* when that time is well formed)
C3_OneTimerForSavedTime ==
  /\ Cardinality({j \in JobIds : jobs[j].running}) <= 1
  /\ \A j \in JobIds : jobs[j].running => j = currentCronJob
  /\ PendingOfKind("config") = 0 =>
       /\ \A j \in JobIds : jobs[j].running =>
            jobs[j].cron.hour \o <<":">> \o jobs[j].cron.minute
              = config.sendTime
       /\ ValidCron(CronTime(config.sendTime)) =>
            \E j \in JobIds : jobs[j].running

C3_Witness ==
  /\ PendingOfKind("config") = 0
  /\ config.sendTime = T0930
  /\ Len(jobs) = 2
  /\ ~jobs[1].running
  /\ jobs[2].running

\* C4: a config update whose sendTime is malformed leaves the schedule as
\* it was: the job that was running is still running
C4_MalformedKeepsSchedule ==
  [][\A i \in 1..MaxOps, ok \in BOOLEAN :
       (ConfigSaved(i, ok) /\ ~ValidCron(CronTime(config.sendTime))) =>
         (jobs' = jobs /\ currentCronJob' = currentCronJob)]_vars

\* C5: one invocation turns at most one message from unsent to sent
C5_AtMostOneMarkedPerRun == \A r \in RunIds : runs[r].marked <= 1

C5_Witness ==
  \E r \in RunIds :
    /\ runs[r].marked = 1
    /\ Len(messages) = 2
    /\ \E i \in MsgIds : ~messages[i].sent

\* C6: a failed send returns the error, changes nothing in the queue or on
\* disk, leaves the selected message unsent and first in line
C6_FailedSendKeepsMessageFirst ==
  [][\A r \in 1..MaxRuns :
       SendFail(r) =>
         /\ runs'[r].result = SendError
         /\ messages' = messages
         /\ diskMessages' = diskMessages
         /\ \A i \in MsgIds :
              messages[i].oid = runs[r].oid =>
                ~messages'[i].sent /\ messages'[i].sentAt = NoTime
         /\ Holds(runs[r].oid) => Unsent(messages')[1].oid = runs[r].oid]_vars

\* C7: a message that is sent keeps its flag and its sentAt for as long as
\* it is in the queue
C7_SentIsFinal ==
  [][\A i \in MsgIds :
       messages[i].sent =>
         \A k \in 1..Len(messages') :
           messages'[k].oid = messages[i].oid =>
             /\ messages'[k].sent
             /\ messages'[k].sentAt = messages[i].sentAt]_vars

\* C8: every message of the queue has a sentAt exactly when it is sent
C8_SentAtIffSent ==
  \A i \in MsgIds : messages[i].sent <=> messages[i].sentAt # NoTime

C8_Witness ==
  /\ \E i \in MsgIds : messages[i].sent /\ messages[i].sentAt # NoTime
  /\ \E i \in MsgIds : ~messages[i].sent /\ messages[i].sentAt = NoTime

\* C9: an invocation that finds no unsent message returns 'No messages
\* queued' at once, whatever the transporter and the phone number are, and
\* writes nothing
C9_EmptyQueueNoWrites ==
  [][(Started /\ Len(Unsent(messages)) = 0) =>
       /\ runs'[Len(runs')].state = "done"
       /\ runs'[Len(runs')].result = NoMessagesQueued
       /\ UNCHANGED <<messages, config, diskMessages, diskConfig, ops, jobs,
                      currentCronJob>>]_vars

C9_Witness ==
  /\ ~transporter
  /\ config.phoneNumber = <<>>
  /\ Len(messages) = 0
  /\ \E r \in RunIds : runs[r].result = NoMessagesQueued

\* C10: with an unsent message but no transporter, or no phone number, the
\* invocation returns that outcome without a backend call and the queue
\* keeps the message unsent
C10_PreconditionNoEffect ==
  [][(/\ Started
      /\ Len(Unsent(messages)) > 0
      /\ (~transporter \/ config.phoneNumber = <<>>)) =>
       /\ runs'[Len(runs')].state = "done"
       /\ runs'[Len(runs')].result =
            IF ~transporter THEN EmailNotConfigured ELSE NoPhoneNumber
       /\ messages' = messages
       /\ diskMessages' = diskMessages
       /\ Len(Unsent(messages')) > 0]_vars

C10_Witness ==
  /\ Len(Unsent(messages)) > 0
  /\ \E r \in RunIds : runs[r].result = NoPhoneNumber
  /\ \E r \in RunIds : runs[r].result = MessageSent

\* C11: the message an invocation selects is an unsent message of the
\* queue whose id is the lowest of the unsent ones, and none is selected
\* when none is unsent
C11_OldestUnsentSelected ==
  [][Started =>
       LET r == runs'[Len(runs')]
       IN  /\ Len(Unsent(messages)) = 0 => r.oid = NoMsg
           /\ (/\ Len(Unsent(messages)) > 0
               /\ transporter
               /\ config.phoneNumber # <<>>) => r.oid # NoMsg
           /\ r.oid # NoMsg =>
                /\ \E i \in MsgIds :
                     /\ messages[i].oid = r.oid
                     /\ messages[i].id = r.id
                     /\ ~messages[i].sent
                /\ \A i \in MsgIds :
                     ~messages[i].sent => r.id <= messages[i].id]_vars

C11_Witness ==
  /\ Len(messages) = 2
  /\ messages[1].id < messages[2].id
  /\ ~messages[1].sent /\ ~messages[2].sent
  /\ Len(runs) = 1
  /\ runs[1].state = "sending"
  /\ runs[1].oid = messages[1].oid

\* C12: ids grow strictly in the order the messages were posted, so no two
\* messages of the queue share an id
C12_StrictlyIncreasingIds ==
  \A i, k \in MsgIds : i < k => messages[i].id < messages[k].id

\* C13: once no config update is in progress, a job is running for the
\* (well-formed) sendTime of the config
C13_ConfigUpdateRearms ==
  (PendingOfKind("config") = 0 /\ ValidCron(CronTime(config.sendTime))) =>
    \E j \in JobIds :
      /\ jobs[j].running
      /\ jobs[j].cron.hour \o <<":">> \o jobs[j].cron.minute = config.sendTime

\* C19: an invocation reports success only when it selected a message and
\* that message is marked sent
C19_SuccessMeansSent ==
  \A r \in RunIds :
    (runs[r].state = "done" /\ runs[r].result.success) =>
      /\ runs[r].oid # NoMsg
      /\ \A i \in MsgIds : messages[i].oid = runs[r].oid => messages[i].sent

\* C14: no message of the queue has an empty text
C14_NoEmptyText == \A i \in MsgIds : messages[i].text # ""

\* C15: a mutating operation whose file write failed does not report
\* success (a write is seen to fail when the file keeps a content that
\* differs from the one handed to writeFile)
C15_WriteErrorSurfaced ==
  [][/\ \A i \in 1..MaxOps :
          (MessagesSaved(i, FALSE) /\ ops[i].snap # diskMessages) =>
            ~lastResp'.success
     /\ \A i \in 1..MaxOps :
          (ConfigSaved(i, FALSE) /\ ops[i].snap # diskConfig) =>
            ~lastResp'.success
     /\ \A r \in 1..MaxRuns :
          (RunSaved(r, FALSE) /\ runs[r].snap # diskMessages) =>
            ~runs'[r].result.success]_vars

\* C18: the delete route answers true exactly when the queue held a
\* message with the requested id
C18_DeleteReportsExistence ==
  [][\A i \in 1..MaxOps, ok \in BOOLEAN :
       (MessagesSaved(i, ok) /\ ops[i].kind = "delete") =>
         (lastResp'.success <=> ops[i].existed)]_vars

\* the address of the end-to-end example, and the resolver as the
\* specification words it
TmobileAddress ==
  <<"5", "5", "5", "1", "2", "3", "4", "5", "6", "7", "@", "tmomail.net">>

LocalDigits(destination) ==
  LET ds == SelectSeq(destination, IsDigit)
  IN  IF Len(ds) > 0 /\ ds[1] = "1" THEN SubSeq(ds, 2, Len(ds)) ELSE ds

GatewayDomain(tag) ==
  CASE tag = "att"        -> "txt.att.net"
    [] tag = "verizon"    -> "vtext.com"
    [] tag = "tmobile"    -> "tmomail.net"
    [] tag = "sprint"     -> "messaging.sprintpcs.com"
    [] tag = "uscellular" -> "email.uscc.net"
    [] tag = "boost"      -> "sms.myboostmobile.com"
    [] tag = "cricket"    -> "sms.cricketwireless.net"
    [] tag = "metropcs"   -> "mymetropcs.com"
    [] OTHER              -> "txt.att.net"

\* C16: with destination +15551234567 and carrier tmobile the backend is
\* called with 5551234567@tmomail.net, a resolved send marks the message
\* sent with a sentAt, and an invocation that finds every message sent
\* returns 'No messages queued' without a backend call
C16_EndToEnd ==
  [][/\ (/\ Started
         /\ runs'[Len(runs')].oid # NoMsg
         /\ config.phoneNumber = Phone
         /\ config.carrier = "tmobile") =>
          runs'[Len(runs')].to = TmobileAddress
     /\ \A r \in 1..MaxRuns :
          SendOk(r) =>
            \A i \in 1..Len(messages') :
              messages'[i].oid = runs[r].oid =>
                messages'[i].sent /\ messages'[i].sentAt # NoTime
     /\ (Started /\ \A i \in MsgIds : messages[i].sent) =>
          /\ runs'[Len(runs')].state = "done"
          /\ runs'[Len(runs')].result = NoMessagesQueued]_vars

C16_Witness ==
  /\ Len(messages) = 1
  /\ messages[1].sent
  /\ messages[1].sentAt # NoTime
  /\ Len(runs) = 2
  /\ runs[1].result = MessageSent
  /\ runs[1].to = TmobileAddress
  /\ runs[2].result = NoMessagesQueued
  /\ runs[2].oid = NoMsg

\* C17: the address a send is resolved to is the local digits of the
\* destination, "@", and the gateway domain of the carrier tag (att's for
\* a tag outside the mapping)
C17_ResolverMapping ==
  \A r \in RunIds :
    runs[r].oid # NoMsg =>
      runs[r].to = LocalDigits(config.phoneNumber)
                     \o <<"@", GatewayDomain(config.carrier)>>

C21_InsertionOrderDelivery ==
  \A i \in MsgIds : \A j \in MsgIds :
    /\ i < j => messages[i].oid < messages[j].oid
    /\ (messages[i].oid < messages[j].oid /\ messages[j].sent) =>
         messages[i].sent

\* two messages queued, the earlier one delivered and marked by a finished
\* run, the later one still waiting
C21_Witness ==
  /\ Len(messages) = 2
  /\ messages[1].sent
  /\ ~messages[2].sent
  /\ \E r \in RunIds : runs[r].state = "done" /\ runs[r].result = MessageSent
                         /\ runs[r].oid = messages[1].oid

\* what JSON.stringify(messages) puts in messages.json: the fields of each
\* element, in array order (object identity is not part of the file)
Persisted(msgs) ==
  [i \in 1..Len(msgs) |->
     [id |-> msgs[i].id, text |-> msgs[i].text, sent |-> msgs[i].sent,
      createdAt |-> msgs[i].createdAt, sentAt |-> msgs[i].sentAt]]

\* no request is suspended at `await saveMessages()` and no run is between
\* its selection and its return
NoMutationInProgress ==
  /\ \A i \in 1..Len(ops) : ops[i].kind \notin {"add", "delete"}
  /\ \A r \in RunIds : runs[r].state = "done"

\* C22: the durable store mirrors the in-memory queue: whenever no mutating
\* operation is in progress, the content of messages.json equals the
\* in-memory message list, for every interleaving of the add, delete and
\* mark-sent writes.
C22_StoreMirrorsMemory ==
  NoMutationInProgress => Persisted(diskMessages) = Persisted(messages)

IsSent(oid) == \E i \in MsgIds : messages[i].oid = oid /\ messages[i].sent

\* C23: no message is lost: with the backend configured, the destination
\* set, the daily timer firing again and again and the sends eventually
\* succeeding, every message that is enqueued and never deleted is
\* eventually marked sent.
C23_NoMessageLost ==
  \A oid \in 1..MaxMsgs : Holds(oid) ~> (IsSent(oid) \/ ~Holds(oid))

\* both messages of the queue delivered by the timer, the second one after
\* a first attempt had failed or a day had passed
C23_Witness ==
  /\ Len(messages) = 2
  /\ messages[1].sent /\ messages[2].sent
  /\ messages[2].oid = 2
  /\ runs = <<>>
====
